---- MODULE Spec2Model ----
\* Model of package autoupdate (autoupdate.go): the AutoUpdate value, its
\* host-facing operations and the polling loop started by Watch.
\*
\* A Go string is modelled as a sequence of one-character strings, so that
\* the version syntax (v<uint>.<uint>.<uint>) is parsed and not assumed.
EXTENDS Integers, Sequences, FiniteSets, TLC

VARIABLES
    v,          \* AutoUpdate.v, the stored current version
    keyOk,      \* Config.PublicKey parses as PEM (VerifySignatureWithPEM succeeds)
    srv,        \* what the update server answers to CheckForUpdate right now
    pc,         \* pc[p]: position of polling goroutine p in loop()
    patch,      \* patch[p]: loop()'s local variable patch
    err,        \* err[p]: loop()'s local variable err
    received,   \* values the host has received from UpdatedTo, in order
    applied,    \* target versions of the Apply calls that returned nil, in order
    hostCall,   \* the host's last call and whether it panicked
    arg,        \* the string SpecSetVersion hands to SetVersion
    hostQ,      \* result of the host's last Query since the server last changed
    httpClient, \* update.HTTPClient, the transport shared by all checks
    cmpIn,      \* the three versions SpecCompare compares, as numbers
    cmpOut,     \* what VersionCompare returned for their tags
    crashed     \* an unrecovered panic in a goroutine has ended the process

vars == <<v, keyOk, srv, pc, patch, err, received, applied, hostCall, arg, hostQ, crashed,
          httpClient, cmpIn, cmpOut>>

\* ---------------------------------------------------------------- bounds

MaxLoops == 2       \* polling goroutines the model can hold
MaxApplied == 2     \* successful Apply calls followed
MaxMinor == 2       \* release tags v1.0.0 .. v1.<MaxMinor>.0 exist
MaxLen == 7         \* longest string handed to SetVersion in SpecSetVersion
MaxCmp == 1         \* SpecCompare: minor numbers 0..MaxCmp, besides 9 and 10

\* ---------------------------------------------------------------- strings

DigitSeq == <<"0", "1", "2", "3", "4", "5", "6", "7", "8", "9">>
Digits == {DigitSeq[i] : i \in 1..Len(DigitSeq)}
DigitVal(c) == (CHOOSE i \in 1..Len(DigitSeq) : DigitSeq[i] = c) - 1

Empty == << >>

\* strconv-style decimal formatting of a natural number
RECURSIVE Dec(_)
Dec(n) == IF n < Len(DigitSeq) THEN <<DigitSeq[n + 1]>>
          ELSE Dec(n \div Len(DigitSeq)) \o <<DigitSeq[(n % Len(DigitSeq)) + 1]>>

Tag(a, b, c) == <<"v">> \o Dec(a) \o <<".">> \o Dec(b) \o <<".">> \o Dec(c)

\* strings.HasPrefix(s, "v")
HasPrefixV(s) == Len(s) >= 1 /\ s[1] = "v"

\* ---------------------------------------------------------------- version ordering

\* Scanner for v<uint>.<uint>.<uint>: st counts the numbers completed,
\* inNum tells whether the number being read has a digit yet.
RECURSIVE ScanTag(_, _, _, _)
ScanTag(s, i, st, inNum) ==
    IF i > Len(s) THEN st = 2 /\ inNum
    ELSE IF s[i] \in Digits THEN ScanTag(s, i + 1, st, TRUE)
    ELSE IF s[i] = "." /\ inNum /\ st < 2 THEN ScanTag(s, i + 1, st + 1, FALSE)
    ELSE FALSE

isVersionTag(s) == HasPrefixV(s) /\ ScanTag(s, 2, 0, FALSE)

RECURSIVE ParseNum(_, _, _)
ParseNum(s, i, acc) ==
    IF i > Len(s) \/ s[i] \notin Digits THEN <<acc, i>>
    ELSE ParseNum(s, i + 1, acc * Len(DigitSeq) + DigitVal(s[i]))

\* parse(tag) -> (major, minor, patch), for a well-formed tag
parse(s) ==
    LET a == ParseNum(s, 2, 0)
        b == ParseNum(s, a[2] + 1, 0)
        c == ParseNum(s, b[2] + 1, 0)
    IN  <<a[1], b[1], c[1]>>

Higher == "Higher"
Equal == "Equal"
Lower == "Lower"
Fatal == "Fatal"

\* a comparison of the tags as strings, character by character
CharRank(ch) == IF ch \in Digits THEN DigitVal(ch) + 1 ELSE 0

RECURSIVE LexCompare(_, _, _)
LexCompare(a, b, i) ==
    IF i > Len(a) /\ i > Len(b) THEN Equal
    ELSE IF i > Len(a) THEN Lower
    ELSE IF i > Len(b) THEN Higher
    ELSE IF CharRank(a[i]) > CharRank(b[i]) THEN Higher
    ELSE IF CharRank(a[i]) < CharRank(b[i]) THEN Lower
    ELSE LexCompare(a, b, i + 1)

VersionCompareLexical(a, b) ==
    IF ~isVersionTag(a) \/ ~isVersionTag(b) THEN Fatal
    ELSE LexCompare(a, b, 1)

\* compare(a, b): how a stands relative to b; malformed input is fatal
VersionCompare(a, b) ==
    IF ~isVersionTag(a) \/ ~isVersionTag(b) THEN Fatal
    ELSE LET x == parse(a)
             y == parse(b)
             k == IF x[1] # y[1] THEN 1 ELSE IF x[2] # y[2] THEN 2 ELSE 3
         IN  IF x[k] > y[k] THEN Higher
             ELSE IF x[k] < y[k] THEN Lower
             ELSE Equal

\* ---------------------------------------------------------------- collaborators

Releases == {Tag(1, n, 0) : n \in 0..MaxMinor}

\* version strings a server may put in its answer, well formed or not
ServerVersions == Releases \cup {Empty, <<"1", ".", "0", ".", "0">>}

\* errors of CheckForUpdate other than NoUpdateAvailable
ErrKinds == {"transport"}

ServerAnswers ==
    [kind : {"noupdate"}, version : {Empty}]
    \cup [kind : ErrKinds, version : {Empty}]
    \cup [kind : {"update"}, version : ServerVersions]

NoErr == "nil"

\* *Patch values: nil, &Patch{} or &Patch{res: res, v: res.Version}; applies
\* counts the Apply calls made on the instance
NilPatch == [nil |-> TRUE, res |-> FALSE, v |-> Empty, applies |-> 0]
EmptyPatch == [nil |-> FALSE, res |-> FALSE, v |-> Empty, applies |-> 0]
ResPatch(ver) == [nil |-> FALSE, res |-> TRUE, v |-> ver, applies |-> 0]

\* Patch.Version()
PatchVersion(p) == p.v

\* ---------------------------------------------------------------- AutoUpdate

Procs == 1..MaxLoops

\* Version()
Version == v

\* check(): whether res is non-nil, res.Version, and err
check(key, answer) ==
    IF ~key THEN [res |-> FALSE, version |-> Empty, err |-> "verification"]
    ELSE IF answer.kind = "noupdate" THEN [res |-> FALSE, version |-> Empty, err |-> NoErr]
    ELSE IF answer.kind \in ErrKinds THEN [res |-> FALSE, version |-> Empty, err |-> answer.kind]
    ELSE [res |-> TRUE, version |-> answer.version, err |-> NoErr]

\* Query(): the Patcher and the error returned, and the check() calls made
Query(key, answer) ==
    LET r == check(key, answer)
    IN  IF r.err # NoErr THEN [patch |-> NilPatch, err |-> r.err, checks |-> 1]
        ELSE IF ~r.res THEN [patch |-> EmptyPatch, err |-> NoErr, checks |-> 1]
        ELSE [patch |-> ResPatch(r.version), err |-> NoErr, checks |-> 1]

\* SetVersion without either test
SetVersionResultNoCheck(cur, s) == [panic |-> FALSE, v |-> s]

\* SetVersion without the isVersionTag test of line 73
SetVersionResultPrefixOnly(cur, s) ==
    IF ~HasPrefixV(s) THEN [panic |-> TRUE, v |-> cur]
    ELSE [panic |-> FALSE, v |-> s]

\* SetVersion(s) with cur stored: does it panic, and what is stored afterwards
SetVersionResult(cur, s) ==
    IF ~HasPrefixV(s) THEN [panic |-> TRUE, v |-> cur]
    ELSE IF ~isVersionTag(s) THEN [panic |-> TRUE, v |-> cur]
    ELSE [panic |-> FALSE, v |-> s]

HostInputs == Releases \cup {Empty, <<"1", ".", "0", ".", "0">>}

\* Patch.Apply() returns nil or an error
ApplyFailed == "applyfailed"
ApplyResults == {NoErr, ApplyFailed}

\* values of update.HTTPClient: the one go-update starts with, &http.Client{},
\* a client through a proxy, and nil
InitialClient == [kind |-> "initial", addr |-> ""]
DirectClient == [kind |-> "direct", addr |-> ""]
ProxyClient(addr) == [kind |-> "proxy", addr |-> addr]
NilClient == [kind |-> "nil", addr |-> ""]

GoodAddrs == {"127.0.0.1:8787"}
BadAddrs == {"no-port-in-address"}
ProxyAddrs == {""} \cup GoodAddrs \cup BadAddrs

\* util.HTTPClient("", addr): the client and the error it returns
HTTPClientFor(addr) ==
    IF addr \in BadAddrs THEN [client |-> NilClient, err |-> "badaddress"]
    ELSE [client |-> ProxyClient(addr), err |-> NoErr]

NoCmp == [done |-> FALSE, ab |-> Equal, ba |-> Equal, bc |-> Equal, ac |-> Equal, aa |-> Equal]
NoCmpIn == <<<<0, 0, 0>>, <<0, 0, 0>>, <<0, 0, 0>>>>

NoQuery == [valid |-> FALSE, patch |-> NilPatch, err |-> NoErr, checks |-> 0]

Call(op, panic) == [op |-> op, panic |-> panic]

\* New(cfg): version unset, channel unbuffered and empty, no goroutine
Init ==
    /\ v = Empty
    /\ keyOk \in BOOLEAN
    /\ srv \in ServerAnswers
    /\ pc = [p \in Procs |-> "idle"]
    /\ patch = [p \in Procs |-> NilPatch]
    /\ err = [p \in Procs |-> NoErr]
    /\ received = << >>
    /\ applied = << >>
    /\ hostCall = Call("New", FALSE)
    /\ arg = Empty
    /\ hostQ = NoQuery
    /\ crashed = FALSE
    /\ httpClient = InitialClient
    /\ cmpIn = NoCmpIn
    /\ cmpOut = NoCmp

\* SetProxy(addr), lines 35-46: the assignment of line 40 stores what
\* util.HTTPClient returned whether or not it returned an error
SetProxy(addr) ==
    /\ ~crashed
    /\ httpClient' = IF addr # "" THEN HTTPClientFor(addr).client ELSE DirectClient
    /\ hostCall' = Call("SetProxy", FALSE)
    /\ UNCHANGED <<v, keyOk, srv, pc, patch, err, received, applied, hostQ, crashed, arg,
                   cmpIn, cmpOut>>

\* host: a.SetVersion(s); a panic is recorded as the call's outcome
SetVersion(s) ==
    /\ ~crashed
    /\ LET r == SetVersionResult(v, s)
       IN /\ v' = r.v
          /\ hostCall' = Call("SetVersion", r.panic)
    /\ UNCHANGED <<keyOk, srv, pc, patch, err, received, applied, hostQ, crashed, arg, httpClient, cmpIn, cmpOut>>

\* host: a.Version()
ReadVersion ==
    /\ ~crashed
    /\ hostCall' = Call("Version", FALSE)
    /\ UNCHANGED <<v, keyOk, srv, pc, patch, err, received, applied, hostQ, crashed, arg, httpClient, cmpIn, cmpOut>>

\* a Query that stores the version it found
HostQueryStoresVersion ==
    /\ ~crashed
    /\ LET q == Query(keyOk, srv)
       IN /\ hostQ' = [valid |-> TRUE, patch |-> q.patch, err |-> q.err, checks |-> q.checks]
          /\ hostCall' = Call("Query", FALSE)
          /\ v' = IF q.err = NoErr THEN PatchVersion(q.patch) ELSE v
    /\ UNCHANGED <<keyOk, srv, pc, patch, err, received, applied, crashed, arg, httpClient, cmpIn, cmpOut>>

\* host: a.Query()
HostQuery ==
    /\ ~crashed
    /\ LET q == Query(keyOk, srv)
       IN /\ hostQ' = [valid |-> TRUE, patch |-> q.patch, err |-> q.err, checks |-> q.checks]
          /\ hostCall' = Call("Query", FALSE)
    /\ UNCHANGED <<v, keyOk, srv, pc, patch, err, received, applied, crashed, arg, httpClient, cmpIn, cmpOut>>

\* Watch without the guard of line 161
WatchAllowedAlways(cur) == TRUE

\* Watch(): does the guard at line 161 let the call through
WatchAllowed(cur) == cur # Empty

\* Watch(): the goroutines started by one call that passed the guard
WatchStarts(idle) == IF idle = {} THEN {} ELSE {CHOOSE p \in idle : \A q \in idle : p <= q}

\* host: a.Watch(); go a.loop() returns at once, the goroutine starts at line 128
Watch ==
    /\ ~crashed
    /\ \E p \in Procs : pc[p] = "idle"
    /\ IF ~WatchAllowed(v)
       THEN /\ hostCall' = Call("Watch", TRUE)
            /\ UNCHANGED pc
       ELSE /\ hostCall' = Call("Watch", FALSE)
            /\ pc' = [p \in Procs |->
                        IF p \in WatchStarts({q \in Procs : pc[q] = "idle"})
                        THEN "query" ELSE pc[p]]
    /\ UNCHANGED <<v, keyOk, srv, patch, err, received, applied, hostQ, crashed, arg, httpClient, cmpIn, cmpOut>>

\* the update server's answer changes
ServerChange ==
    /\ ~crashed
    /\ \E a \in ServerAnswers \ {srv} : srv' = a
    /\ hostQ' = NoQuery
    /\ UNCHANGED <<v, keyOk, pc, patch, err, received, applied, hostCall, crashed, arg, httpClient, cmpIn, cmpOut>>

\* a loop that asks again at once after a failed Query
AfterQueryRetry(e) == IF e = NoErr THEN "compare" ELSE "query"

\* loop(), line 132: where Query's error sends the iteration
AfterQuery(e) == IF e = NoErr THEN "compare" ELSE "sleep"

\* loop(), line 134: where the comparison sends the iteration
AfterCompare(cur, pv) ==
    LET c == VersionCompare(cur, pv)
    IN  IF c = Fatal THEN "panic"
        ELSE IF c = Higher THEN "apply"
        ELSE "sleep"

\* a loop that stores the version without publishing it
AfterApplySkipSend(e) == IF e = NoErr THEN "setver" ELSE "sleep"

\* a loop that calls Apply again on the patch that failed
AfterApplyRetry(e) == IF e = NoErr THEN "send" ELSE "apply"

\* a loop that publishes whatever Apply returned
AfterApplyAlwaysSend(e) == "send"

\* loop(), line 139: where Apply's result sends the iteration
AfterApply(e) == IF e = NoErr THEN "send" ELSE "sleep"

\* loop(), line 130: patch, err := a.Query()
LoopQuery(p) ==
    /\ ~crashed
    /\ pc[p] = "query"
    /\ LET q == Query(keyOk, srv)
       IN /\ patch' = [patch EXCEPT ![p] = q.patch]
          /\ err' = [err EXCEPT ![p] = q.err]
          /\ pc' = [pc EXCEPT ![p] = AfterQuery(q.err)]
    /\ UNCHANGED <<v, keyOk, srv, received, applied, hostCall, hostQ, crashed, arg, httpClient, cmpIn, cmpOut>>

\* loop(), line 134: VersionCompare(a.Version(), patch.Version()) == Higher
LoopCompare(p) ==
    /\ ~crashed
    /\ pc[p] = "compare"
    /\ LET to == AfterCompare(Version, PatchVersion(patch[p]))
       IN /\ pc' = [pc EXCEPT ![p] = to]
          /\ crashed' = (to = "panic")
    /\ UNCHANGED <<v, keyOk, srv, patch, err, received, applied, hostCall, hostQ, arg, httpClient, cmpIn, cmpOut>>

\* loop(), line 137: err = patch.Apply()
LoopApply(p) ==
    /\ ~crashed
    /\ pc[p] = "apply"
    /\ \E e \in ApplyResults :
        /\ e = NoErr => Len(applied) < MaxApplied
        /\ applied' = IF e = NoErr THEN Append(applied, PatchVersion(patch[p])) ELSE applied
        /\ err' = [err EXCEPT ![p] = e]
        /\ pc' = [pc EXCEPT ![p] = AfterApply(e)]
    /\ patch' = [patch EXCEPT ![p].applies = @ + 1]
    /\ UNCHANGED <<v, keyOk, srv, received, hostCall, hostQ, crashed, arg, httpClient, cmpIn, cmpOut>>

\* a send on a channel made with room for it: it never waits
SendProceedsBuffered(receiving) == TRUE

\* UpdatedTo is make(chan string), line 61: a send completes only in a
\* rendezvous with a receive
SendProceeds(receiving) == receiving

\* loop(), line 142: a.UpdatedTo <- patch.Version(), with the host receiving
\* or not; a send that cannot complete leaves the goroutine parked
ChanSend(p, receiving) ==
    /\ ~crashed
    /\ pc[p] = "send"
    /\ IF SendProceeds(receiving)
       THEN /\ received' = IF receiving THEN Append(received, PatchVersion(patch[p]))
                           ELSE received
            /\ pc' = [pc EXCEPT ![p] = "setver"]
       ELSE UNCHANGED <<received, pc>>
    /\ UNCHANGED <<v, keyOk, srv, patch, err, applied, hostCall, hostQ, crashed, arg, httpClient, cmpIn, cmpOut>>

\* line 142 completed by the host's receive
LoopSend(p) == ChanSend(p, TRUE)

\* line 142 with no receive by the host
LoopSendUnreceived(p) == ChanSend(p, FALSE)

\* loop(), line 143: a.SetVersion(patch.Version()); a panic here ends the process.
\* a.v is written here and read by the host without synchronisation; the
\* store of line 76 is taken as one step, so a reader sees the old or the
\* new string.
LoopSetVersion(p) ==
    /\ ~crashed
    /\ pc[p] = "setver"
    /\ LET r == SetVersionResult(v, PatchVersion(patch[p]))
       IN /\ v' = r.v
          /\ crashed' = r.panic
          /\ pc' = [pc EXCEPT ![p] = IF r.panic THEN "panic" ELSE "sleep"]
    /\ UNCHANGED <<keyOk, srv, patch, err, received, applied, hostCall, hostQ, arg, httpClient, cmpIn, cmpOut>>

\* loop(), line 155: time.Sleep(sleepTime), then the next iteration
LoopSleep(p) ==
    /\ ~crashed
    /\ pc[p] = "sleep"
    /\ pc' = [pc EXCEPT ![p] = "query"]
    /\ patch' = [patch EXCEPT ![p] = NilPatch]
    /\ err' = [err EXCEPT ![p] = NoErr]
    /\ UNCHANGED <<v, keyOk, srv, received, applied, hostCall, hostQ, crashed, arg, httpClient, cmpIn, cmpOut>>

Next ==
    \/ \E s \in HostInputs : SetVersion(s)
    \/ ReadVersion
    \/ HostQuery
    \/ Watch
    \/ ServerChange
    \/ \E p \in Procs : LoopQuery(p)
    \/ \E p \in Procs : LoopCompare(p)
    \/ \E p \in Procs : LoopApply(p)
    \/ \E p \in Procs : LoopSend(p)
    \/ \E p \in Procs : LoopSetVersion(p)
    \/ \E p \in Procs : LoopSleep(p)

Spec == Init /\ [][Next]_vars

\* The host calls Watch as the package intends: once it has gone through,
\* no second call is made.
WatchOnce == (\A p \in Procs : pc[p] = "idle") /\ Watch

NextWatchOnce ==
    \/ \E s \in HostInputs : SetVersion(s)
    \/ ReadVersion
    \/ HostQuery
    \/ WatchOnce
    \/ ServerChange
    \/ \E p \in Procs : LoopQuery(p)
    \/ \E p \in Procs : LoopCompare(p)
    \/ \E p \in Procs : LoopApply(p)
    \/ \E p \in Procs : LoopSend(p)
    \/ \E p \in Procs : LoopSetVersion(p)
    \/ \E p \in Procs : LoopSleep(p)

SpecWatchOnce == Init /\ [][NextWatchOnce]_vars

\* A host that never receives from UpdatedTo; line 143 is then never reached.
NextNoReceive ==
    \/ \E s \in HostInputs : SetVersion(s)
    \/ ReadVersion
    \/ HostQuery
    \/ WatchOnce
    \/ ServerChange
    \/ \E p \in Procs : LoopQuery(p)
    \/ \E p \in Procs : LoopCompare(p)
    \/ \E p \in Procs : LoopApply(p)
    \/ \E p \in Procs : LoopSendUnreceived(p)
    \/ \E p \in Procs : LoopSleep(p)

SpecNoReceive == Init /\ [][NextNoReceive]_vars

\* The host sets the version once and calls Watch once.
SetVersionOnce(s) == v = Empty /\ SetVersion(s)

NextSetOnce ==
    \/ \E s \in HostInputs : SetVersionOnce(s)
    \/ ReadVersion
    \/ HostQuery
    \/ WatchOnce
    \/ ServerChange
    \/ \E p \in Procs : LoopQuery(p)
    \/ \E p \in Procs : LoopCompare(p)
    \/ \E p \in Procs : LoopApply(p)
    \/ \E p \in Procs : LoopSend(p)
    \/ \E p \in Procs : LoopSetVersion(p)
    \/ \E p \in Procs : LoopSleep(p)

SpecSetOnce == Init /\ [][NextSetOnce]_vars

\* The host's calls alone, with the proxy setting among them.
NextProxy ==
    \/ \E a \in ProxyAddrs : SetProxy(a)
    \/ \E s \in HostInputs : SetVersion(s)
    \/ ReadVersion
    \/ HostQuery
    \/ ServerChange

SpecProxy == Init /\ [][NextProxy]_vars

\* VersionCompare alone, on the tags of three versions.
CmpMinors == (0..MaxCmp) \cup {9, 10}
CmpVersions == {<<a, b, c>> : a \in 1..2, b \in CmpMinors, c \in 0..1}
TagOf(n) == Tag(n[1], n[2], n[3])

InitCompare ==
    /\ cmpIn \in CmpVersions \X CmpVersions \X CmpVersions
    /\ cmpOut = NoCmp
    /\ v = Empty
    /\ keyOk = TRUE
    /\ srv = [kind |-> "noupdate", version |-> Empty]
    /\ pc = [p \in Procs |-> "idle"]
    /\ patch = [p \in Procs |-> NilPatch]
    /\ err = [p \in Procs |-> NoErr]
    /\ received = << >>
    /\ applied = << >>
    /\ hostCall = Call("New", FALSE)
    /\ arg = Empty
    /\ hostQ = NoQuery
    /\ crashed = FALSE
    /\ httpClient = InitialClient

CompareAll ==
    /\ ~cmpOut.done
    /\ LET a == TagOf(cmpIn[1])
           b == TagOf(cmpIn[2])
           c == TagOf(cmpIn[3])
       IN cmpOut' = [done |-> TRUE, ab |-> VersionCompare(a, b), ba |-> VersionCompare(b, a),
                     bc |-> VersionCompare(b, c), ac |-> VersionCompare(a, c),
                     aa |-> VersionCompare(a, a)]
    /\ UNCHANGED <<v, keyOk, srv, pc, patch, err, received, applied, hostCall, arg, hostQ,
                   crashed, httpClient, cmpIn>>

SpecCompare == InitCompare /\ [][CompareAll]_vars

\* ---------------------------------------------------------------- properties

Running == {p \in Procs : pc[p] # "idle"}

\* v<uint>.<uint>.<uint>, stated by the positions of the two dots
WellFormed(s) ==
    /\ Len(s) >= 1
    /\ s[1] = "v"
    /\ \E i, j \in 1..Len(s) :
        /\ 2 < i /\ i + 1 < j /\ j < Len(s)
        /\ s[i] = "." /\ s[j] = "."
        /\ \A k \in (2..Len(s)) \ {i, j} : s[k] \in Digits

\* goroutine p leaves line 134 in this step
ComparesNow(p) == pc[p] = "compare" /\ pc'[p] # "compare"

\* C1: whenever Query returned a patch whose version is strictly Higher than the
\* current version, the iteration goes on to call Apply.
C1_HigherPatchIsApplied ==
    [][\A p \in Procs :
        (ComparesNow(p) /\ VersionCompare(PatchVersion(patch[p]), v) = Higher)
            => pc'[p] = "apply"]_vars

\* C2: an Apply that returned an error is followed by the sleep of line 155
\* directly: the step that takes the error sends nothing and leaves the stored
\* version alone, and the iteration holding the error is past the send and the
\* SetVersion of lines 142-143.
C2_FailedApplyStep ==
    \A p \in Procs :
        (pc[p] = "apply" /\ pc'[p] # "apply" /\ err'[p] = ApplyFailed)
            => (pc'[p] = "sleep" /\ v' = v /\ received' = received /\ applied' = applied)

C2_FailedApplyLeavesNoTrace ==
    /\ [](\A p \in Procs : err[p] = ApplyFailed => pc[p] = "sleep")
    /\ [][C2_FailedApplyStep]_vars

C2_Witness == \E p \in Procs : err[p] = ApplyFailed /\ pc[p] = "sleep" /\ v # Empty

\* C3: Apply is attempted only for a patch whose version is strictly Higher than
\* the current version.
C3_ApplyOnlyIfPatchHigher ==
    [][\A p \in Procs :
        (ComparesNow(p) /\ pc'[p] = "apply")
            => VersionCompare(PatchVersion(patch[p]), v) = Higher]_vars

\* C4: an iteration whose Query returned the empty Patch of "no update" goes on
\* to the sleep; it does not abort.
C4_NoUpdateGoesToSleep ==
    [][\A p \in Procs :
        (ComparesNow(p) /\ patch[p] = EmptyPatch)
            => (pc'[p] = "sleep" /\ ~crashed')]_vars

\* C5: Watch panics and starts nothing while the version is unset; with a
\* version set it returns normally having started one goroutine, which stands
\* at the top of loop() with no check, apply or send done for the caller.
C5_WatchStep ==
    Running' # Running =>
        /\ v # Empty
        /\ hostCall' = Call("Watch", FALSE)
        /\ \E p \in Procs \ Running :
            /\ Running' = Running \cup {p}
            /\ pc'[p] = "query"
            /\ patch'[p] = NilPatch
        /\ UNCHANGED <<v, srv, received, applied, hostQ, crashed>>

C5_WatchContract ==
    /\ [](v = Empty => Running = {})
    /\ [](hostCall = Call("Watch", TRUE) => (v = Empty /\ Running = {}))
    /\ [](hostCall = Call("Watch", FALSE) => (v # Empty /\ Running # {}))
    /\ [][C5_WatchStep]_vars

C5_Witness ==
    /\ hostCall = Call("Watch", FALSE)
    /\ Running # {}
    /\ \A p \in Running : pc[p] = "query"
    /\ received = << >> /\ applied = << >>

\* C6: however often Watch is called, at most one polling goroutine runs.
C6_AtMostOneLoop == Cardinality(Running) <= 1

\* C7: SetVersion(arg) panics and leaves the stored version alone for every
\* string that is not v<uint>.<uint>.<uint>; for every well-formed tag it
\* returns and the stored version is arg.
C7_SetVersionStep ==
    \/ WellFormed(arg) /\ v' = arg /\ hostCall' = Call("SetVersion", FALSE)
    \/ ~WellFormed(arg) /\ v' = v /\ hostCall' = Call("SetVersion", TRUE)

C7_SetVersionContract == [][C7_SetVersionStep]_vars

C7_Witness ==
    /\ arg = <<"v", "X", ".", "X", ".", "X">>
    /\ hostCall = Call("SetVersion", TRUE)
    /\ v = Tag(1, 0, 0)

\* C8: a Query, by the host or by a polling goroutine, leaves the stored version
\* and the channel alone; two host Queries with no change of the server's
\* answer in between return the same error and the same Version().
C8_QueryStep ==
    /\ ((hostCall'.op = "Query" /\ (hostCall' # hostCall \/ hostQ' # hostQ))
            \/ \E p \in Procs : pc[p] = "query" /\ pc'[p] # "query")
        => (v' = v /\ received' = received /\ applied' = applied)
    /\ (hostQ.valid /\ hostQ'.valid)
        => (PatchVersion(hostQ'.patch) = PatchVersion(hostQ.patch) /\ hostQ'.err = hostQ.err)

C9_QueryOutcomes ==
    hostQ.valid =>
        LET failed == ~keyOk \/ srv.kind \in ErrKinds
            none == keyOk /\ srv.kind = "noupdate"
        IN  /\ hostQ.checks = 1
            /\ (hostQ.err # NoErr) <=> failed
            /\ hostQ.err # NoErr => hostQ.patch = NilPatch
            /\ (hostQ.err = NoErr /\ PatchVersion(hostQ.patch) = Empty) <=> none
            /\ (~failed /\ ~none) => PatchVersion(hostQ.patch) = srv.version

\* C10: the values received on UpdatedTo are the target versions of the
\* successful Applies, in the order of the Applies (the last ones may still
\* be waiting to be received).
C10_ReceivedFollowsApplied ==
    /\ Len(received) <= Len(applied)
    /\ \A i \in 1..Len(received) : received[i] = applied[i]

\* C11: with a host that never receives, a goroutine that has reached the send
\* of line 142 stays there: no further check, apply, sleep or send, and the
\* stored version changes only if the host itself sets it.
C11_BlockedStep ==
    \A p \in Procs :
        pc[p] = "send" =>
            /\ pc'[p] = "send"
            /\ patch'[p] = patch[p]
            /\ applied' = applied /\ received' = received
            /\ v' # v => hostCall' = Call("SetVersion", FALSE)

C11_SendBlocksForever ==
    /\ [](received = << >> /\ \A p \in Procs : pc[p] # "setver")
    /\ [][C11_BlockedStep]_vars

C11_Witness ==
    /\ \E p \in Procs : pc[p] = "send" /\ v # PatchVersion(patch[p])
    /\ Len(applied) = 1
    /\ hostCall = Call("Version", FALSE)

\* C12: a SetProxy whose address util.HTTPClient rejects leaves the transport
\* that was configured before the call; the empty address installs a direct
\* client.
C12_SetProxyKeepsTransportOnFailure ==
    [][\A a \in ProxyAddrs :
        SetProxy(a) =>
            IF a = "" THEN httpClient' = DirectClient
            ELSE (HTTPClientFor(a).err # NoErr => httpClient' = httpClient)]_vars

\* (major, minor, patch) compared as integers
Weight(n) == (n[1] * 1000 + n[2]) * 1000 + n[3]
NumCompare(m, n) ==
    IF Weight(m) > Weight(n) THEN Higher ELSE IF Weight(m) < Weight(n) THEN Lower ELSE Equal

\* C13: on well-formed tags VersionCompare is the integer comparison of
\* (major, minor, patch): antisymmetric, Equal on a tag and itself and only on
\* equal numbers, and transitive.
C13_CompareIsNumericOrder ==
    cmpOut.done =>
        LET a == cmpIn[1]
            b == cmpIn[2]
            c == cmpIn[3]
        IN  /\ cmpOut.ab = NumCompare(a, b)
            /\ cmpOut.bc = NumCompare(b, c)
            /\ (cmpOut.ab = Higher) <=> (cmpOut.ba = Lower)
            /\ cmpOut.aa = Equal
            /\ cmpOut.ab = Equal => a = b
            /\ (cmpOut.ab = Higher /\ cmpOut.bc = Higher) => cmpOut.ac = Higher
            /\ (cmpOut.ab = Lower /\ cmpOut.bc = Lower) => cmpOut.ac = Lower

C13_Witness ==
    /\ cmpOut.done
    /\ cmpIn[1] = <<1, 10, 0>> /\ cmpIn[2] = <<1, 9, 0>> /\ cmpIn[3] = <<1, 1, 1>>
    /\ cmpOut.ab = Higher /\ cmpOut.bc = Higher /\ cmpOut.ac = Higher

\* C14: a successful Apply is followed by the send, the send by the write of
\* the version; the send itself leaves the stored version alone, and a write
\* by the loop stores the patch's version, which the host has received by then.
C14_Step ==
    /\ \A p \in Procs :
        /\ (pc[p] = "apply" /\ pc'[p] # "apply" /\ err'[p] = NoErr)
            => (pc'[p] = "send" /\ v' = v /\ received' = received)
        /\ (pc[p] = "send" /\ pc'[p] # "send")
            => /\ pc'[p] = "setver"
               /\ received' = Append(received, PatchVersion(patch[p]))
               /\ v' = v
        /\ (pc[p] = "setver" /\ pc'[p] # "setver" /\ ~crashed')
            => /\ v' = PatchVersion(patch[p])
               /\ \E i \in 1..Len(received) : received[i] = v'
    /\ v' # v => (pc' = pc \/ \E p \in Procs : pc[p] = "setver" /\ pc'[p] = "sleep")

C14_SendPrecedesWrite == [][C14_Step]_vars

C14_Witness ==
    \E p \in Procs :
        /\ pc[p] = "sleep" /\ patch[p].applies = 1 /\ err[p] = NoErr
        /\ v = PatchVersion(patch[p])
        /\ received # << >> /\ received[Len(received)] = v

QueryErrors == {"verification"} \cup ErrKinds

\* C15: an iteration whose Query returned an error goes straight to the sleep
\* with no Apply, no send and no write of the version, and the sleep is
\* followed by the next Query, as after every other outcome.
C15_Step ==
    \A p \in Procs :
        /\ (pc[p] = "query" /\ err'[p] \in QueryErrors)
            => /\ pc'[p] = "sleep"
               /\ patch'[p] = NilPatch
               /\ v' = v /\ received' = received /\ applied' = applied
        /\ (pc[p] = "sleep" /\ pc'[p] # "sleep")
            => /\ pc'[p] = "query"
               /\ v' = v /\ received' = received /\ applied' = applied

C15_QueryErrorGoesToSleep ==
    /\ [](\A p \in Procs : err[p] \in QueryErrors => pc[p] = "sleep")
    /\ [][C15_Step]_vars

C15_Witness ==
    \E p \in Procs : pc[p] = "sleep" /\ err[p] = "transport" /\ v # Empty

\* C16: a polling goroutine, once started, never ends.
C16_LoopNeverEnds == \A p \in Procs : pc[p] # "panic"

\* C17: Apply is called at most once on a Patch: the patch a Query returns has
\* had no Apply, the one held before the comparison and the Apply has had
\* none, the one held after the Apply has had one, and the patch is dropped
\* when the iteration ends.
C17_Step ==
    \A p \in Procs :
        /\ (pc[p] = "query" /\ pc'[p] # "query") => patch'[p].applies = 0
        /\ (pc[p] = "sleep" /\ pc'[p] # "sleep") => patch'[p] = NilPatch

C17_ApplyOncePerPatch ==
    /\ [](\A p \in Procs :
            /\ patch[p].applies <= 1
            /\ pc[p] \in {"compare", "apply"} => patch[p].applies = 0
            /\ pc[p] \in {"send", "setver"} => patch[p].applies = 1)
    /\ [][C17_Step]_vars

C17_Witness ==
    \E p \in Procs : pc[p] = "sleep" /\ err[p] = ApplyFailed /\ patch[p].applies = 1

\* C18: the stored version is empty or a well-formed tag, and once set it is
\* never empty again.
C18_VersionWellFormed ==
    /\ [](v = Empty \/ WellFormed(v))
    /\ [][v # Empty => v' # Empty]_vars

C18_Witness ==
    \E p \in Procs :
        /\ pc[p] = "panic"
        /\ PatchVersion(patch[p]) = <<"1", ".", "0", ".", "0">>
        /\ WellFormed(v)

\* C19: every change of a version already set stores a strictly Higher one.
C19_VersionOnlyRises ==
    [][(v # Empty /\ v' # v) => VersionCompare(v', v) = Higher]_vars

\* SetVersion alone, on every string of up to MaxLen characters
SetVersionAlphabet == {"v", ".", "1", "X"}
Strings == UNION {[1..n -> SetVersionAlphabet] : n \in 0..MaxLen}

InitSetVersion ==
    /\ v \in {Empty, Tag(1, 0, 0)}
    /\ arg \in Strings
    /\ keyOk = TRUE
    /\ srv = [kind |-> "noupdate", version |-> Empty]
    /\ pc = [p \in Procs |-> "idle"]
    /\ patch = [p \in Procs |-> NilPatch]
    /\ err = [p \in Procs |-> NoErr]
    /\ received = << >>
    /\ applied = << >>
    /\ hostCall = Call("New", FALSE)
    /\ hostQ = NoQuery
    /\ crashed = FALSE
    /\ httpClient = InitialClient
    /\ cmpIn = NoCmpIn
    /\ cmpOut = NoCmp

NextSetVersion == SetVersion(arg)

SpecSetVersion == InitSetVersion /\ [][NextSetVersion]_vars
====
